---- MODULE Spec2Model ----
(***************************************************************************)
(* Model of pc_app/OsciFootswitch.py: the SerialReader thread, the         *)
(* ScopeController (instrument session) and the MainWindow handlers that   *)
(* drive them (event dispatcher, connect, identify, screenshot, setup).    *)
(*                                                                         *)
(* Bytes are ASCII codes; byte strings are sequences of them.              *)
(***************************************************************************)
EXTENDS Integers, Sequences, FiniteSets, TLC

\* ------------------------------------------------------------------ bounds

\* Largest number of lines the serial readers read off the wire in a run.
MaxEvents == 2
\* Largest number of SerialReader threads open_serial creates in a run.
MaxReaders == 2
\* Longest payload of the block codec runs.
MaxLen == 10
\* Longest reply buffer of the header strip runs.
MaxBuf == 5

\* --------------------------------------------------------------- constants

\* ScopeController.connect: self.scope.timeout = 5000
ConnectTimeout == 5000
\* get_screenshot_png: self.scope.timeout = 10000
ScreenshotTimeout == 10000
\* save_setup: self.scope.timeout = 5000
SetupTimeout == 5000

Hash == 35
Zero == 48

\* The button tokens handle_event knows, and one token it does not know.
Buttons == {"B1S", "B1L", "B2S", "B2L"}
Lines == Buttons \cup {"FOO"}
\* SerialReader.run: self.queue.put(f"ERROR:{e}")
ErrorEvent == "ERROR:e"
\* The texts an item of the queue can hold.  A line's text comes from the
\* serial device and nothing reads it between readline() and handle_event:
\* the queue holds the item's kind, "line" or "error", and the text is drawn
\* when process_events takes the item.
Text(kind) == IF kind = "error" THEN {ErrorEvent} ELSE Lines

\* Terminations of a VISA resource: what open_resource leaves (the library's
\* line-terminated default, never assigned by this program), '\n' and ''.
DefaultTerm == "DEFAULT"
NewlineTerm == "\n"
EmptyTerm == ""

VARIABLES
    \* ScopeController
    scope,              \* self.scope: "none" (None) or "open" (a resource)
    write_termination,  \* self.scope.write_termination
    read_termination,   \* self.scope.read_termination
    timeout,            \* self.scope.timeout
    running,            \* self.running (RunState)
    \* MainWindow
    event_queue,        \* self.event_queue (queue.Queue): [kind, seq]
    serial_thread,      \* self.serial_thread: 0 (None) or a reader's number
    gui,                \* position of the GUI thread
    event,              \* the item process_events took: [tok, seq]
    \* SerialReader threads
    reader,             \* reader[r]: pc, runflag (_running), ser, and
                        \* after: the items it has put since stop() was
                        \* called on it
    \* the handler the GUI thread has just run, until it returns
    op,                 \* its name
    old_timeout,        \* its local old_timeout (binary exchanges)
    issued,             \* the instrument calls it made, in order: [cmd, ok]
    assigned,           \* the attributes of the resource it assigned, in
                        \* order: [attr, val]
    caught,             \* its except clause caught an exception
    raised,             \* an exception left it uncaught
    ctl_termination,    \* load_setup: the write_termination and
                        \* read_termination it has set on the ScopeController
                        \* (attributes the program never reads)
    logged,             \* the lines it appended to the log
    \* counters
    npushed,            \* items put on event_queue so far
    nhandled,           \* calls of handle_event so far
    \* block codec runs
    cstep,              \* "idle", "encoded", "decoded"
    data,               \* load_setup: data, the bytes of the setup file
    datalen,            \* len(data)
    header,             \* load_setup: header
    payload,            \* load_setup: payload = header + data
    raw,                \* get_screenshot_png / save_setup: raw
    decoded             \* what the strip of the block header computed

sessionVars == <<scope, write_termination, read_termination, timeout, running>>
lastVars == <<op, old_timeout, issued, assigned, caught, raised,
             ctl_termination, logged>>
codecVars == <<cstep, data, datalen, header, payload, raw, decoded>>
vars == <<sessionVars, event_queue, serial_thread, gui, event,
          reader, lastVars, npushed, nhandled, codecVars>>

\* ------------------------------------------------------------ block codec

Min(a, b) == IF a < b THEN a ELSE b

\* Python's b[i:j] for 0 <= i <= j: the slice is clamped to the buffer.
Slice(b, i, j) ==
    IF i >= Len(b) \/ j <= i THEN <<>> ELSE SubSeq(b, i + 1, Min(j, Len(b)))

\* str(n) for n >= 0, as ASCII codes.
RECURSIVE Str(_)
Str(n) == IF n < 10 THEN <<Zero + n>> ELSE Str(n \div 10) \o <<Zero + (n % 10)>>

\* int(b) of a byte string over the model's alphabet: defined on one or more
\* decimal digits, a ValueError on anything else (the empty string included).
IsDigits(b) == Len(b) > 0 /\ \A k \in 1..Len(b) : b[k] \in Zero..(Zero + 9)

RECURSIVE IntOf(_)
IntOf(b) ==
    IF Len(b) = 0 THEN 0
    ELSE 10 * IntOf(SubSeq(b, 1, Len(b) - 1)) + (b[Len(b)] - Zero)

\* Mutant of BlockHeader: the digit count is left out of the header.
BlockHeaderNoCount(len) == <<Hash>> \o Str(len)

\* load_setup: header = f"#{len(str(len(data)))}{len(data)}".encode()
BlockHeader(len) == <<Hash>> \o Str(Len(Str(len))) \o Str(len)

\* load_setup: payload = header + data
Encode(d) == BlockHeader(Len(d)) \o d

DecodeError == [ok |-> FALSE, n |-> 0, length |-> 0, data |-> <<>>]

\* Mutant of StripHeader: a buffer without the block marker is refused.
StripHeaderStrict(b) ==
    IF Len(b) > 0 /\ b[1] = Hash
    THEN IF ~IsDigits(Slice(b, 1, 2)) THEN DecodeError
         ELSE LET n == IntOf(Slice(b, 1, 2)) IN
              IF ~IsDigits(Slice(b, 2, 2 + n)) THEN DecodeError
              ELSE LET length == IntOf(Slice(b, 2, 2 + n)) IN
                   [ok |-> TRUE, n |-> n, length |-> length,
                    data |-> Slice(b, 2 + n, 2 + n + length)]
    ELSE DecodeError

\* get_screenshot_png / save_setup: "Strip IEEE-488.2 binary header".
\* n and length are the locals of that name (0 when the buffer has no header).
StripHeader(b) ==
    IF Len(b) > 0 /\ b[1] = Hash
    THEN IF ~IsDigits(Slice(b, 1, 2)) THEN DecodeError
         ELSE LET n == IntOf(Slice(b, 1, 2)) IN
              IF ~IsDigits(Slice(b, 2, 2 + n)) THEN DecodeError
              ELSE LET length == IntOf(Slice(b, 2, 2 + n)) IN
                   [ok |-> TRUE, n |-> n, length |-> length,
                    data |-> Slice(b, 2 + n, 2 + n + length)]
    ELSE [ok |-> TRUE, n |-> 0, length |-> 0, data |-> b]

\* ------------------------------------------------- ScopeController methods
\* A method maps the session it is called on to the session it leaves.  The
\* record carries the object's fields, the calls made so far in the running
\* handler (issued), the assignments made so far to the attributes of the
\* resource (assigned), the number of fallible outside calls made (n), the
\* local old_timeout, the data returned, the lines logged, and raised: an exception
\* is propagating, so every later statement of the handler's try block is
\* skipped, until the except clause catches it (caught).  fail is the number
\* of the outside call that fails in this run of the handler (0: none).

\* LINE: writes and reads are terminated; RAW: they are not.
TransportMode(s) ==
    IF s.write_termination = EmptyTerm \/ s.read_termination = EmptyTerm
    THEN "RAW" ELSE "LINE"

Raise(s) == [s EXCEPT !.raised = TRUE]

\* self.scope.<attr> = val, as an entry of assigned: val is the text of the
\* right-hand side.
Assign(attr, val) == [attr |-> attr, val |-> val]

\* Mutant of ScopeCall: a call is made although an earlier one has raised.
ScopeCallKeepsGoing(s, cmd, fail) ==
    LET ok == s.scope = "open" /\ s.n + 1 # fail IN
    [s EXCEPT !.n = @ + 1,
              !.issued = Append(@, [cmd |-> cmd, ok |-> ok]),
              !.raised = @ \/ ~ok]

\* self.scope.write(cmd) / self.scope.read_raw(): on None an AttributeError,
\* on a resource the call, which the instrument or the network may fail.
ScopeCall(s, cmd, fail) ==
    IF s.raised THEN s
    ELSE LET ok == s.scope = "open" /\ s.n + 1 # fail IN
         [s EXCEPT !.n = @ + 1,
                   !.issued = Append(@, [cmd |-> cmd, ok |-> ok]),
                   !.raised = ~ok]

\* open(filename, "wb") / f.write(data) / open(filename, "rb") / f.read()
FileCall(s, fail) ==
    IF s.raised THEN s
    ELSE [s EXCEPT !.n = @ + 1, !.raised = (s.n + 1 = fail)]

connect(s, fail) ==
    IF s.n + 1 = fail THEN [s EXCEPT !.n = @ + 1, !.raised = TRUE]
    ELSE ScopeCall([s EXCEPT !.n = @ + 1,
                             !.scope = "open",
                             !.write_termination = DefaultTerm,
                             !.read_termination = DefaultTerm,
                             !.timeout = ConnectTimeout,
                             !.assigned = Append(@,
                                 Assign("timeout", ToString(ConnectTimeout)))],
                   "*IDN?", fail)

identify(s, enable, fail) ==
    IF enable THEN ScopeCall(s, ":SYST:DSP FOOT SWITCH IDENTIFIER", fail)
    ELSE ScopeCall(s, ":SYST:DSP", fail)

\* Mutant of run: RunState is set before the write is known to succeed.
run_sets_first(s, fail) ==
    [ScopeCall(s, ":RUN", fail) EXCEPT !.running = ~s.raised \/ @]

run(s, fail) ==
    LET w == ScopeCall(s, ":RUN", fail) IN
    IF w.raised THEN w ELSE [w EXCEPT !.running = TRUE]

stop(s, fail) ==
    LET w == ScopeCall(s, ":STOP", fail) IN
    IF w.raised THEN w ELSE [w EXCEPT !.running = FALSE]

\* Mutant of single: a single acquisition also marks the scope stopped.
single_stops(s, fail) ==
    LET w == ScopeCall(s, ":SINGLE", fail) IN
    IF w.raised THEN w ELSE [w EXCEPT !.running = FALSE]

single(s, fail) == ScopeCall(s, ":SINGLE", fail)

trigger_auto(s, fail) == ScopeCall(s, ":TRIG:MODE AUTO", fail)

\* Mutant of trigger_normal: the wrong trigger mode is written.
trigger_normal_auto(s, fail) == ScopeCall(s, ":TRIG:MODE AUTO", fail)

trigger_normal(s, fail) == ScopeCall(s, ":TRIG:MODE NORM", fail)

\* "Binary mode": the assignments before the first write of an exchange.
\* On self.scope = None the first of them raises AttributeError.
BinaryMode(s, t) ==
    IF s.raised THEN s
    ELSE IF s.scope = "none" THEN Raise(s)
    ELSE [s EXCEPT !.write_termination = EmptyTerm,
                   !.read_termination = EmptyTerm,
                   !.old_timeout = s.timeout,
                   !.timeout = t,
                   !.assigned = @ \o <<Assign("write_termination", EmptyTerm),
                                        Assign("read_termination", EmptyTerm),
                                        Assign("timeout", ToString(t))>>]

\* "Restore ASCII mode": the assignments after read_raw has returned.
RestoreAscii(s) ==
    IF s.raised THEN s
    ELSE [s EXCEPT !.write_termination = NewlineTerm,
                   !.read_termination = NewlineTerm,
                   !.timeout = s.old_timeout,
                   !.assigned = @ \o
                       <<Assign("write_termination", NewlineTerm),
                         Assign("read_termination", NewlineTerm),
                         Assign("timeout", "old_timeout")>>]

\* The strip of the header from raw; int() raises ValueError on a bad header.
Strip(s, reply) ==
    IF s.raised THEN s
    ELSE LET d == StripHeader(reply) IN
         IF d.ok THEN [s EXCEPT !.data = d.data] ELSE Raise(s)

get_screenshot_png(s, color, inverted, fail, reply) ==
    LET palette == IF color THEN ":DISPlay:DATA? PNG,SCReen,COLor"
                   ELSE ":DISPlay:DATA? PNG,SCReen,GRAYscale"
        inksaver == IF inverted THEN ":HARDcopy:INKSaver ON"
                    ELSE ":HARDcopy:INKSaver OFF"
        b == BinaryMode(s, ScreenshotTimeout)
        w1 == ScopeCall(b, inksaver, fail)
        w2 == ScopeCall(w1, palette, fail)
        r == ScopeCall(w2, "read_raw", fail)
    IN Strip(RestoreAscii(r), reply)

save_setup(s, fail, reply) ==
    LET b == BinaryMode(s, SetupTimeout)
        w == ScopeCall(b, ":SYSTem:SETup?", fail)
        r == ScopeCall(w, "read_raw", fail)
    IN FileCall(Strip(RestoreAscii(r), reply), fail)

\* ------------------------------------------------------ MainWindow handlers

\* The session a handler starts on.
Session ==
    [scope |-> scope, write_termination |-> write_termination,
     read_termination |-> read_termination, timeout |-> timeout,
     running |-> running, old_timeout |-> 0, data |-> <<>>,
     ctl_termination |-> "unset",
     issued |-> <<>>, assigned |-> <<>>, n |-> 0, raised |-> FALSE,
     caught |-> FALSE,
     logged |-> <<>>]

\* self.log_msg(msg) as a statement of a try block.
Log(s, msg) == IF s.raised THEN s ELSE [s EXCEPT !.logged = Append(@, msg)]

\* Mutant of Catch: the except clause does not match the exception.
CatchNothing(s, msg) == s

\* except Exception as e: self.log_msg(...)
Catch(s, msg) ==
    IF s.raised
    THEN [s EXCEPT !.raised = FALSE, !.caught = TRUE, !.logged = Append(@, msg)]
    ELSE s

\* Mutant of handle_event: B1S does not look at RunState.
handle_event_no_toggle(s, ev, fail) ==
    Catch(CASE ev = "B1S" -> Log(run(s, fail), "Event: RUN")
            [] ev = "B1L" ->
               Log(run(trigger_auto(s, fail), fail), "Event: TRIGGER AUTO, RUN")
            [] ev = "B2S" ->
               Log(single(trigger_normal(s, fail), fail),
                   "Event: TRIGGER NORMAL, SINGLE")
            [] ev = "B2L" ->
               Log(single(trigger_auto(s, fail), fail),
                   "Event: TRIGGER AUTO, SINGLE")
            [] OTHER -> s,
          "exception")

handle_event(s, ev, fail) ==
    Catch(CASE ev = "B1S" ->
               IF s.running THEN Log(stop(s, fail), "Event: STOP")
               ELSE Log(run(s, fail), "Event: RUN")
            [] ev = "B1L" ->
               Log(run(trigger_auto(s, fail), fail), "Event: TRIGGER AUTO, RUN")
            [] ev = "B2S" ->
               Log(single(trigger_normal(s, fail), fail),
                   "Event: TRIGGER NORMAL, SINGLE")
            [] ev = "B2L" ->
               Log(single(trigger_auto(s, fail), fail),
                   "Event: TRIGGER AUTO, SINGLE")
            [] OTHER -> s,
          "exception")

connect_scope(s, fail) ==
    Catch(Log(connect(s, fail), "Connected to scope"), "exception")

identify_scope(s, checked, fail) ==
    Catch(identify(s, checked, fail), "exception")

preview_screenshot(s, color, inverted, fail, reply) ==
    Catch(Log(get_screenshot_png(s, color, inverted, fail, reply),
              "Screenshot preview updated"),
          "exception")

\* filename is what the file dialog returned ("" when cancelled); shot is the
\* reply to the screen dump, setup the reply to the setup query.
save_screenshot_and_setup(s, filename, color, inverted, fail, shot, setup) ==
    IF filename = "" THEN s
    ELSE Catch(Log(save_setup(FileCall(get_screenshot_png(s, color, inverted,
                                                           fail, shot),
                                       fail),
                              fail, setup),
                   "Saved screenshot and updated preview"),
               "exception")

\* self.scope.write_termination = ... in MainWindow: self.scope there is the
\* ScopeController, so the assignment makes an attribute of the controller.
CtlTermination(s, term) ==
    IF s.raised THEN s ELSE [s EXCEPT !.ctl_termination = term]

\* self.scope.write_raw(":SYSTem:SETup ", payload) in MainWindow:
\* ScopeController has no write_raw, an AttributeError.
CtlWriteRaw(s, body) == IF s.raised THEN s ELSE Raise(s)

\* filename is what the file dialog returned, d the bytes of that file.
load_setup(s, filename, d, fail) ==
    IF filename = "" THEN s
    ELSE Catch(Log(CtlTermination(CtlWriteRaw(CtlTermination(FileCall(s, fail),
                                                             EmptyTerm),
                                              Encode(d)),
                                  NewlineTerm),
                   "Setup loaded"),
               "Failed to load setup")

\* What a handler leaves behind.
Commit(s, name) ==
    /\ scope' = s.scope
    /\ write_termination' = s.write_termination
    /\ read_termination' = s.read_termination
    /\ timeout' = s.timeout
    /\ running' = s.running
    /\ old_timeout' = s.old_timeout
    /\ ctl_termination' = s.ctl_termination
    /\ issued' = s.issued
    /\ assigned' = s.assigned
    /\ caught' = s.caught
    /\ raised' = s.raised
    /\ logged' = s.logged
    /\ op' = name


\* ------------------------------------------------------------------ inputs

ByteAlphabet == {Hash, Zero + 1}
Payloads == UNION {[1..k -> ByteAlphabet] : k \in 0..MaxLen}

\* Replies of the instrument to a binary query: "#11A" and "#".
Replies == {<<Hash, Zero + 1, Zero + 1, 65>>, <<Hash>>}
\* The Color and Inverted checkboxes: as the window starts, and both toggled.
Checkboxes == {<<TRUE, FALSE>>, <<FALSE, TRUE>>}
Filenames == {"", "file"}
SetupFiles == {<<>>, <<65>>}

Readers == 1..MaxReaders
NoReader == [pc |-> "none", runflag |-> TRUE, ser |-> "none", after |-> 0]
NoEvent == [tok |-> "", seq |-> 0]

\* ------------------------------------------------------------------- state

InitCodec ==
    /\ cstep = "idle"
    /\ data = <<>>
    /\ datalen = 0
    /\ header = <<>>
    /\ payload = <<>>
    /\ raw = <<>>
    /\ decoded = DecodeError

NoHandler ==
    /\ op' = ""
    /\ old_timeout' = 0
    /\ issued' = <<>>
    /\ assigned' = <<>>
    /\ caught' = FALSE
    /\ raised' = FALSE
    /\ ctl_termination' = "unset"
    /\ logged' = <<>>

\* MainWindow.__init__, ScopeController.__init__
InitWindow ==
    /\ scope = "none"
    /\ write_termination = DefaultTerm
    /\ read_termination = DefaultTerm
    /\ timeout = 0
    /\ running = FALSE
    /\ ctl_termination = "unset"
    /\ event_queue = <<>>
    /\ serial_thread = 0
    /\ gui = "idle"
    /\ event = NoEvent
    /\ reader = [r \in Readers |-> NoReader]
    /\ op = ""
    /\ old_timeout = 0
    /\ issued = <<>>
    /\ assigned = <<>>
    /\ caught = FALSE
    /\ raised = FALSE
    /\ logged = <<>>
    /\ npushed = 0
    /\ nhandled = 0

Init == InitWindow /\ InitCodec

windowVars == <<sessionVars, event_queue, serial_thread, gui,
                event, reader, lastVars, npushed, nhandled>>
\* What a button's handler leaves alone.
buttonFrame == <<event_queue, serial_thread, event, reader, npushed, nhandled,
                 codecVars>>
\* What a step outside the handlers leaves alone.
sessionFrame == <<sessionVars, lastVars, codecVars>>

\* ------------------------------------------------- GUI thread: the buttons
\* Qt runs a handler to its end on the GUI thread: gui is "ran" from the
\* handler's last statement until it has returned to the event loop.

ConnectScope ==
    /\ gui = "idle"
    /\ \E fail \in 0..2 : Commit(connect_scope(Session, fail), "connect_scope")
    /\ gui' = "ran"
    /\ UNCHANGED buttonFrame

IdentifyScope ==
    /\ gui = "idle"
    /\ \E checked \in BOOLEAN, fail \in 0..1 :
          Commit(identify_scope(Session, checked, fail), "identify_scope")
    /\ gui' = "ran"
    /\ UNCHANGED buttonFrame

PreviewScreenshot ==
    /\ gui = "idle"
    /\ \E cb \in Checkboxes, fail \in 0..3, reply \in Replies :
          Commit(preview_screenshot(Session, cb[1], cb[2], fail, reply),
                 "preview_screenshot")
    /\ gui' = "ran"
    /\ UNCHANGED buttonFrame

SaveScreenshotAndSetup ==
    /\ gui = "idle"
    /\ \E filename \in Filenames :
          IF filename = ""
          THEN Commit(save_screenshot_and_setup(Session, filename, TRUE, FALSE,
                                                0, <<>>, <<>>),
                      "save_screenshot_and_setup")
          ELSE \E cb \in Checkboxes, fail \in 0..7, shot \in Replies,
                  setup \in Replies :
                  Commit(save_screenshot_and_setup(Session, filename, cb[1],
                                                   cb[2], fail, shot, setup),
                         "save_screenshot_and_setup")
    /\ gui' = "ran"
    /\ UNCHANGED buttonFrame

LoadSetup ==
    /\ gui = "idle"
    /\ \E filename \in Filenames, d \in SetupFiles, fail \in 0..1 :
          Commit(load_setup(Session, filename, d, fail), "load_setup")
    /\ gui' = "ran"
    /\ UNCHANGED buttonFrame

Created == {r \in Readers : reader[r].pc # "none"}

\* open_serial: a new SerialReader (its __init__) is started.
OpenSerial ==
    /\ gui = "idle"
    /\ Cardinality(Created) < MaxReaders
    /\ LET r == Cardinality(Created) + 1 IN
          /\ serial_thread' = r
          /\ reader' = [reader EXCEPT ![r] = [NoReader EXCEPT !.pc = "start"]]
    /\ Commit(Log(Session, "Opened serial"), "open_serial")
    /\ gui' = "ran"
    /\ UNCHANGED <<event_queue, event, npushed, nhandled, codecVars>>

\* The handler returns to the event loop.
HandlerReturns ==
    /\ gui = "ran"
    /\ gui' = "idle"
    /\ NoHandler
    /\ UNCHANGED <<sessionVars, buttonFrame>>

\* closeEvent up to the first statement of SerialReader.stop:
\* self._running = False.
CloseEvent ==
    /\ gui = "idle"
    /\ IF serial_thread # 0
       THEN /\ reader' = [reader EXCEPT ![serial_thread].runflag = FALSE]
            /\ gui' = "stop"
       ELSE /\ gui' = "closed"
            /\ UNCHANGED reader
    /\ UNCHANGED <<sessionFrame, event_queue, serial_thread, event, npushed,
                   nhandled>>

\* The rest of SerialReader.stop (if self.ser: self.ser.close()) and
\* event.accept(): the window is closed.
StopClose ==
    /\ gui = "stop"
    /\ reader' = [reader EXCEPT ![serial_thread].ser =
                     IF @ = "none" THEN @ ELSE "closed"]
    /\ gui' = "closed"
    /\ UNCHANGED <<sessionFrame, event_queue, serial_thread, event, npushed,
                   nhandled>>

\* ------------------------------------------- GUI thread: process_events

\* The QTimer fires and process_events is entered.
TimerTick ==
    /\ gui = "idle"
    /\ gui' = "check"
    /\ UNCHANGED <<sessionFrame, event_queue, serial_thread, event, reader,
                   npushed, nhandled>>

\* while not self.event_queue.empty(): the queue is empty, the pass ends.
DrainDone ==
    /\ gui = "check"
    /\ event_queue = <<>>
    /\ gui' = "idle"
    /\ UNCHANGED <<sessionFrame, event_queue, serial_thread, event, reader,
                   npushed, nhandled>>

\* Mutant of DrainMore: get() is called without the test of empty().
DrainMoreUnchecked ==
    /\ gui = "check"
    /\ gui' = "get"
    /\ UNCHANGED <<sessionFrame, event_queue, serial_thread, event, reader,
                   npushed, nhandled>>

\* while not self.event_queue.empty(): the queue holds something.
DrainMore ==
    /\ gui = "check"
    /\ event_queue # <<>>
    /\ gui' = "get"
    /\ UNCHANGED <<sessionFrame, event_queue, serial_thread, event, reader,
                   npushed, nhandled>>

\* Mutant of QueueGet: the newest item is taken.
QueueGetNewest(q) == [item |-> q[Len(q)], rest |-> SubSeq(q, 1, Len(q) - 1)]

\* queue.Queue.get(): first in, first out.
QueueGet(q) == [item |-> Head(q), rest |-> Tail(q)]

\* self.event_queue.get(), which blocks while the queue is empty.
GetEvent ==
    /\ gui = "get"
    /\ event_queue # <<>>
    /\ LET item == QueueGet(event_queue).item IN
          \E tok \in Text(item.kind) : event' = [tok |-> tok, seq |-> item.seq]
    /\ event_queue' = QueueGet(event_queue).rest
    /\ gui' = "handle"
    /\ UNCHANGED <<sessionFrame, serial_thread, reader, npushed, nhandled>>

\* self.handle_event(...) to its last statement.
HandleEvent ==
    /\ gui = "handle"
    /\ \E fail \in 0..2 :
          Commit(handle_event(Session, event.tok, fail), "handle_event")
    /\ nhandled' = nhandled + 1
    /\ gui' = "handled"
    /\ UNCHANGED <<event_queue, serial_thread, event, reader, npushed,
                   codecVars>>

\* handle_event returns to the loop test of process_events; an exception
\* it let through would end process_events instead.
EventReturns ==
    /\ gui = "handled"
    /\ gui' = IF raised THEN "idle" ELSE "check"
    /\ event' = NoEvent
    /\ NoHandler
    /\ UNCHANGED <<sessionVars, event_queue, serial_thread, reader, npushed,
                   nhandled, codecVars>>

\* ------------------------------------------------------ SerialReader.run

\* queue.Queue.put(item)
QueuePut(q, item) == Append(q, item)

\* Every item put is numbered, to tell the items apart.
Put(kind) ==
    /\ event_queue' = QueuePut(event_queue, [kind |-> kind, seq |-> npushed + 1])
    /\ npushed' = npushed + 1

\* Reader r after a put that leaves it at pc: a put made once stop() has
\* cleared _running is counted.
HasPut(r, pc) ==
    [reader[r] EXCEPT !.pc = pc,
                      !.after = IF reader[r].runflag THEN @ ELSE @ + 1]

readerFrame == <<sessionFrame, serial_thread, gui, event, nhandled>>

\* Lines read and not yet put on the queue.
InFlight == Cardinality({r \in Readers : reader[r].pc = "put"})

\* self.ser = serial.Serial(...) opens the port.
OpenPort(r) ==
    /\ reader[r].pc = "start"
    /\ reader' = [reader EXCEPT ![r].pc = "loop", ![r].ser = "open"]
    /\ UNCHANGED <<readerFrame, event_queue, npushed>>

\* serial.Serial(...) raises: the except clause puts the error and run ends.
OpenFails(r) ==
    /\ reader[r].pc = "start"
    /\ reader' = [reader EXCEPT ![r] = HasPut(r, "done")]
    /\ Put("error")
    /\ UNCHANGED readerFrame

\* Mutant of LoopTest: the loop does not look at _running.
LoopTestForever(r) ==
    /\ reader[r].pc = "loop"
    /\ reader' = [reader EXCEPT ![r].pc = "read"]
    /\ UNCHANGED <<readerFrame, event_queue, npushed>>

\* while self._running:
LoopTest(r) ==
    /\ reader[r].pc = "loop"
    /\ reader' = [reader EXCEPT ![r].pc = IF reader[r].runflag THEN "read"
                                          ELSE "done"]
    /\ UNCHANGED <<readerFrame, event_queue, npushed>>

\* readline() returns a line that is not empty once decoded and stripped.
ReadLine(r) ==
    /\ reader[r].pc = "read"
    /\ reader[r].ser = "open"
    /\ npushed + InFlight < MaxEvents
    /\ reader' = [reader EXCEPT ![r].pc = "put"]
    /\ UNCHANGED <<readerFrame, event_queue, npushed>>

\* readline() times out, or the line is blank: if line: is false.
ReadNothing(r) ==
    /\ reader[r].pc = "read"
    /\ reader[r].ser = "open"
    /\ reader' = [reader EXCEPT ![r].pc = "loop"]
    /\ UNCHANGED <<readerFrame, event_queue, npushed>>

\* Mutant of ReadFails: after the error is put the reader opens the port anew.
ReadFailsRetries(r) ==
    /\ reader[r].pc = "read"
    /\ reader' = [reader EXCEPT ![r] = HasPut(r, "start")]
    /\ Put("error")
    /\ UNCHANGED readerFrame

\* readline() raises (the device is gone, or stop() has closed the port).
ReadFails(r) ==
    /\ reader[r].pc = "read"
    /\ reader' = [reader EXCEPT ![r] = HasPut(r, "done")]
    /\ Put("error")
    /\ UNCHANGED readerFrame

\* self.queue.put(line)
PutLine(r) ==
    /\ reader[r].pc = "put"
    /\ reader' = [reader EXCEPT ![r] = HasPut(r, "loop")]
    /\ Put("line")
    /\ UNCHANGED readerFrame

Next ==
    \/ ConnectScope
    \/ IdentifyScope
    \/ PreviewScreenshot
    \/ SaveScreenshotAndSetup
    \/ LoadSetup
    \/ OpenSerial
    \/ HandlerReturns
    \/ CloseEvent
    \/ StopClose
    \/ TimerTick
    \/ DrainDone
    \/ DrainMore
    \/ GetEvent
    \/ HandleEvent
    \/ EventReturns
    \/ \E r \in Readers : OpenPort(r)
    \/ \E r \in Readers : OpenFails(r)
    \/ \E r \in Readers : LoopTest(r)
    \/ \E r \in Readers : ReadLine(r)
    \/ \E r \in Readers : ReadNothing(r)
    \/ \E r \in Readers : ReadFails(r)
    \/ \E r \in Readers : PutLine(r)

Spec == Init /\ [][Next]_vars

\* --------------------------------------------------------- block codec runs
\* A setup file of datalen bytes is wrapped as load_setup wraps it and the
\* block is stripped as save_setup and get_screenshot_png strip a reply.  data
\* holds the file's bytes, all of them up to MaxLen and the first MaxLen of a
\* longer file, and payload and raw the same part of the block.

Power10 == {100, 1000, 10000, 100000, 1000000, 10000000, 100000000,
            1000000000}
LongLens == Power10 \cup {p - 1 : p \in Power10}

InitBlock ==
    /\ InitWindow
    /\ cstep = "idle"
    /\ data \in Payloads
    /\ datalen \in IF Len(data) < MaxLen THEN {Len(data)}
                   ELSE {Len(data)} \cup LongLens
    /\ header = <<>>
    /\ payload = <<>>
    /\ raw = <<>>
    /\ decoded = DecodeError

\* load_setup: header = ...; payload = header + data
EncodeBlock ==
    /\ cstep = "idle"
    /\ header' = BlockHeader(datalen)
    /\ payload' = header' \o data
    /\ cstep' = "encoded"
    /\ UNCHANGED <<windowVars, data, datalen, raw, decoded>>

\* The block comes back as the reply to a query and its header is stripped.
DecodeBlock ==
    /\ cstep = "encoded"
    /\ raw' = payload
    /\ decoded' = StripHeader(raw')
    /\ cstep' = "decoded"
    /\ UNCHANGED <<windowVars, data, datalen, header, payload>>

NextBlock == EncodeBlock \/ DecodeBlock

SpecBlock == InitBlock /\ [][NextBlock]_vars

\* --------------------------------------------------------- header strip runs
\* read_raw() returns whatever bytes the instrument sent: any buffer over
\* '#', '0', '1', '2' and 'A' up to MaxBuf bytes is a reply, and its header
\* is stripped as get_screenshot_png and save_setup strip it.

ReplyAlphabet == {Hash, Zero, Zero + 1, Zero + 2, 65}
Buffers == UNION {[1..k -> ReplyAlphabet] : k \in 0..MaxBuf}

InitStrip ==
    /\ InitWindow
    /\ cstep = "idle"
    /\ data = <<>>
    /\ datalen = 0
    /\ header = <<>>
    /\ payload = <<>>
    /\ raw \in Buffers
    /\ decoded = DecodeError

\* if raw.startswith(b"#"): ... else: data = raw
StripReply ==
    /\ cstep = "idle"
    /\ decoded' = StripHeader(raw)
    /\ cstep' = "decoded"
    /\ UNCHANGED <<windowVars, data, datalen, header, payload, raw>>

NextStrip == StripReply

SpecStrip == InitStrip /\ [][NextStrip]_vars

\* ------------------------------------------------------------------ claims

Failed(calls) == \E i \in DOMAIN calls : ~calls[i].ok
Cmds(calls) == [i \in DOMAIN calls |-> calls[i].cmd]
IsPrefix(a, b) == Len(a) <= Len(b) /\ a = SubSeq(b, 1, Len(a))
\* A step of the GUI thread that runs handle_event on the item in hand.
Handles == gui = "handle" /\ gui' = "handled"
BinaryExchange == {"preview_screenshot", "save_screenshot_and_setup"}

\* C1: when the write or the raw read of a binary exchange has failed, the
\* session is in LINE mode again and its timeout is the one it had before.
C1_RestoredAfterFailure ==
    (op \in BinaryExchange /\ Failed(issued)) =>
        /\ write_termination = NewlineTerm
        /\ read_termination = NewlineTerm
        /\ timeout = old_timeout

\* C2: a run-state or identify command is only ever written to the
\* instrument in LINE mode.
C2_CommandsInLineMode ==
    (op \in {"handle_event", "identify_scope"} /\ issued # <<>>
        /\ scope = "open") => TransportMode(Session) = "LINE"

\* C3: RunState starts STOPPED, and with every write succeeding B1S issues
\* exactly stop() and leaves STOPPED when RunState is RUNNING, and issues
\* exactly run() and leaves RUNNING when it is STOPPED.
C3_B1SToggles ==
    /\ [](nhandled = 0 => ~running)
    /\ [][(Handles /\ event.tok = "B1S" /\ ~Failed(issued')) =>
             IF running
             THEN issued' = <<[cmd |-> ":STOP", ok |-> TRUE]>> /\ ~running'
             ELSE issued' = <<[cmd |-> ":RUN", ok |-> TRUE]>> /\ running']_vars

\* C3 witness: a second event, B1S, has issued stop() and RunState is STOPPED
\* again.
C3_Witness ==
    /\ gui = "handled" /\ event.tok = "B1S" /\ nhandled = 2
    /\ issued = <<[cmd |-> ":STOP", ok |-> TRUE]>>
    /\ ~running

\* C4: when the write of run() or stop() fails, RunState is what it was and
\* the exception has reached the caller, handle_event.
C4_FailedWriteKeepsRunState ==
    [][(Handles /\ \E i \in DOMAIN issued' :
                      /\ issued'[i].cmd \in {":RUN", ":STOP"}
                      /\ ~issued'[i].ok)
          => running' = running /\ caught']_vars

\* C4 witness: stop() has failed on a running scope.
C4_Witness ==
    /\ gui = "handled" /\ running /\ caught
    /\ issued = <<[cmd |-> ":STOP", ok |-> FALSE]>>

\* The items put and not yet passed to handle_event, oldest first.
Pending == (IF gui = "handle" THEN <<event>> ELSE <<>>) \o event_queue

\* C5: the items are handled once each and in the order they were put: the
\* items still to handle are the ones numbered nhandled + 1 to npushed, in
\* that order, and at most one item is in the dispatcher's hands.
C5_HandledOnceInOrder ==
    /\ npushed = nhandled + Len(Pending)
    /\ \A i \in 1..Len(Pending) : Pending[i].seq = nhandled + i
    /\ (event # NoEvent) <=> (gui \in {"handle", "handled"})
    /\ gui = "handled" => event.seq = nhandled

\* C5 witness: the second item has been handled while a third waits.
C5_Witness ==
    /\ gui = "handled" /\ nhandled = 2 /\ event.seq = 2
    /\ Len(event_queue) = 1

\* C6: a failure in an event's action sequence is caught and logged once,
\* the loop of process_events goes on, and the pass ends only on an empty
\* queue.
C6_FailureDoesNotStopDrain ==
    /\ [][(gui = "handled" /\ Failed(issued)) =>
             /\ caught /\ ~raised /\ logged = <<"exception">>
             /\ gui' \in {"handled", "check"}]_vars
    /\ [][(gui \in {"check", "handled"} /\ gui' = "idle") =>
             event_queue = <<>>]_vars

\* C6 witness: an event's action sequence has failed while another item waits
\* in the queue.
C6_Witness ==
    gui = "handled" /\ Failed(issued) /\ caught /\ event_queue # <<>>

\* The footswitch table of the window.
Table(tok, isRunning) ==
    CASE tok = "B1S" -> IF isRunning THEN <<":STOP">> ELSE <<":RUN">>
      [] tok = "B1L" -> <<":TRIG:MODE AUTO", ":RUN">>
      [] tok = "B2S" -> <<":TRIG:MODE NORM", ":SINGLE">>
      [] tok = "B2L" -> <<":TRIG:MODE AUTO", ":SINGLE">>
      [] OTHER -> <<>>

\* C7: the commands issued for an event are those of the table, in order
\* (up to the first that fails), and none for any other item.
C7_CommandsFollowTable ==
    [][Handles =>
          /\ IsPrefix(Cmds(issued'), Table(event.tok, running))
          /\ ~Failed(issued') => Cmds(issued') = Table(event.tok, running)
          /\ \A i \in 1..(Len(issued') - 1) : issued'[i].ok]_vars

\* C7 witness: B2S has issued trigger_normal and single.
C7_Witness ==
    /\ gui = "handled" /\ event.tok = "B2S"
    /\ issued = <<[cmd |-> ":TRIG:MODE NORM", ok |-> TRUE],
                  [cmd |-> ":SINGLE", ok |-> TRUE]>>

\* C8: every item that is no button token leaves one line in the log.
C8_UnknownIsLogged ==
    (gui = "handled" /\ event.tok \notin Buttons) => Len(logged) = 1

\* C9: RunState changes only in a handle_event whose run() or stop() has
\* succeeded; B2S, B2L and unrecognized items leave it as it is.
C9_OnlyRunStopChangeRunState ==
    /\ [][running' # running =>
             /\ Handles
             /\ \E i \in DOMAIN issued' :
                   /\ issued'[i].ok
                   /\ issued'[i].cmd = IF running' THEN ":RUN" ELSE ":STOP"]_vars
    /\ [][(Handles /\ event.tok \notin {"B1S", "B1L"}) =>
             running' = running]_vars

\* C9 witness: B2L has been handled, with both writes succeeding, and RunState
\* is still RUNNING.
C9_Witness ==
    /\ gui = "handled" /\ event.tok = "B2L" /\ running
    /\ Len(issued) = 2 /\ ~Failed(issued)

\* C10: a block made from a payload shorter than 10^9 bytes decodes to that
\* payload, with a header of 2 + n bytes that declares the payload's length.
C10_RoundTrip ==
    (cstep = "decoded" /\ datalen < 10^9) =>
        /\ decoded.ok
        /\ decoded.data = data
        /\ decoded.length = datalen
        /\ 2 + decoded.n = Len(payload) - Len(data)
        /\ SubSeq(raw, 3 + decoded.n, Len(raw)) = data

\* C10 witness: a payload whose length takes two digits has made the trip.
C10_Witness ==
    cstep = "decoded" /\ Len(data) = MaxLen /\ datalen = MaxLen /\ decoded.n = 2
        /\ decoded.data = data

\* C11: a buffer that starts with '#' and whose header declares length L is
\* never decoded to a payload of fewer than L bytes.
C11_TruncatedIsRejected ==
    (cstep = "decoded" /\ Len(raw) > 0 /\ raw[1] = Hash /\ decoded.ok) =>
        Len(decoded.data) = decoded.length

\* C12: a buffer that does not start with '#' decodes without failure to the
\* whole buffer, with no header byte consumed.
C12_NoMarkerIsWholeBuffer ==
    (cstep = "decoded" /\ (Len(raw) = 0 \/ raw[1] # Hash)) =>
        /\ decoded.ok
        /\ decoded.data = raw
        /\ decoded.n = 0

\* C12 witness: a buffer of MaxBuf bytes that starts with a digit and holds a
\* '#' further on has been decoded to itself.
C12_Witness ==
    /\ cstep = "decoded" /\ Len(raw) = MaxBuf /\ raw[1] = Zero + 1
    /\ raw[2] = Hash /\ decoded.ok /\ decoded.data = raw

\* Reader r puts an item in this step, and the kind of the item put.
Puts(r) == reader'[r].pc # reader[r].pc /\ npushed' = npushed + 1
PutKind == event_queue'[Len(event_queue')].kind

\* C13: a SerialReader whose open or read fails puts exactly one ErrorEvent
\* in that step, a reader that puts an ErrorEvent is done with that step,
\* and a reader that is done stays done and puts nothing: no retry, no
\* reconnect.
C13_ErrorEndsReader ==
    [][\A r \in Readers :
          /\ (reader[r].pc \in {"start", "read"} /\ reader'[r].pc = "done")
                 => Puts(r) /\ PutKind = "error"
          /\ (Puts(r) /\ PutKind = "error") => reader'[r].pc = "done"
          /\ reader[r].pc = "done" => reader'[r].pc = "done" /\ ~Puts(r)]_vars

\* C13 witness: the only reader has put a line and then, its read failing
\* on the open port, an ErrorEvent, and is done.
C13_Witness ==
    /\ Created = {1} /\ reader[1].pc = "done" /\ reader[1].ser = "open"
    /\ Len(event_queue) = 2
    /\ event_queue[1].kind = "line" /\ event_queue[2].kind = "error"

\* C14: once stop() has returned and the read loop has exited, the reader's
\* serial connection is not open.
C14_StoppedReaderIsClosed ==
    (gui = "closed" /\ serial_thread # 0
        /\ reader[serial_thread].pc = "done") =>
            reader[serial_thread].ser # "open"

\* C15: load_setup on a connected session, with the file read and no
\* transport failure, sends the instrument exactly one setup-restore request
\* and reports success.
C15_LoadSetupSendsRequest ==
    (op = "load_setup" /\ scope = "open" /\ ctl_termination # "unset") =>
        /\ Len(issued) = 1
        /\ issued[1] = [cmd |-> ":SYSTem:SETup ", ok |-> TRUE]
        /\ ~caught
        /\ logged = <<"Setup loaded">>

\* C17: at the end of a binary exchange the prior timeout is restored first
\* and the transport is switched back to LINE after it: the assignment that
\* starts the switch (write_termination = '\n') comes right after
\* timeout = old_timeout.
C17_TimeoutRestoredBeforeLine ==
    op \in BinaryExchange =>
        \A j \in DOMAIN assigned :
            assigned[j] = Assign("write_termination", NewlineTerm) =>
                j > 1 /\ assigned[j - 1] = Assign("timeout", "old_timeout")

\* C16: get() is only ever called on a queue that holds an item, so it never
\* blocks; a pass that finds the queue empty returns without handling
\* anything; and only the dispatcher's get() takes items off the queue.
C16_DrainNeverBlocks ==
    /\ [](gui = "get" => event_queue # <<>>)
    /\ [][(gui = "check" /\ event_queue = <<>> /\ gui' # gui) =>
             gui' = "idle" /\ nhandled' = nhandled /\ event' = NoEvent]_vars
    /\ [][Len(event_queue') < Len(event_queue) =>
             gui = "get" /\ gui' = "handle"
                 /\ event_queue' = Tail(event_queue)]_vars

\* C16 witness: the dispatcher is about to call get() on a queue of one item
\* while a reader is about to put another.
C16_Witness ==
    /\ gui = "get" /\ Len(event_queue) = 1
    /\ \E r \in Readers : reader[r].pc = "put"

\* C18: only the reader that self.serial_thread names is ever about to put a
\* line on the queue.
C18_OneSerialSource ==
    \A r \in Readers : reader[r].pc = "put" => r = serial_thread

\* C19: when the trigger-mode write of B1L, B2S or B2L fails, nothing else
\* is issued for that event, RunState is unchanged and one failure is logged.
C19_StopsAtFirstFailure ==
    [][(Handles /\ event.tok \in {"B1L", "B2S", "B2L"}
           /\ issued' # <<>> /\ ~issued'[1].ok) =>
          /\ Len(issued') = 1
          /\ issued'[1].cmd \in {":TRIG:MODE AUTO", ":TRIG:MODE NORM"}
          /\ running' = running
          /\ caught' /\ logged' = <<"exception">>]_vars

\* C19 witness: on a running scope the trigger_auto of B1L has failed, and
\* RunState is still RUNNING.
C19_Witness ==
    /\ gui = "handled" /\ event.tok = "B1L" /\ running
    /\ issued = <<[cmd |-> ":TRIG:MODE AUTO", ok |-> FALSE]>>
    /\ logged = <<"exception">>

\* C20: a reader puts at most one item after stop() has been called on it.
C20_AtMostOneAfterStop ==
    \A r \in Readers : reader[r].after <= 1

\* C20 witness: the reader has put, after stop() was called, the line it had
\* read before, and has left its loop with the port closed.
C20_Witness ==
    /\ serial_thread # 0
    /\ reader[serial_thread].after = 1 /\ reader[serial_thread].pc = "done"
    /\ reader[serial_thread].ser = "closed"
    /\ event_queue # <<>>
    /\ event_queue[Len(event_queue)].kind = "line"

====
